---- MODULE Spec2Model ----
(***************************************************************************)
(* brood-flow: decoding of Broodminder BLE advertisements, the in-memory   *)
(* device cache, and the rate-limited Home Assistant MQTT publication.     *)
(*                                                                         *)
(* Strings that the program builds (device ids, topics) are sequences of   *)
(* text fragments, so that replace(":", "") and format!() are computed.    *)
(* f32 values are kept as exact scaled integers (the scale is noted at     *)
(* each field); f32 rounding is not modelled.                              *)
(* Utc::now() is a clock that never runs backwards; every call in the      *)
(* source is a separate reading of it.                                     *)
(***************************************************************************)
EXTENDS Integers, Sequences, FiniteSets, TLC

VARIABLES
  now,          \* the wall clock, epoch milliseconds (Utc::now().timestamp_millis())
  ticks,        \* how many times the clock has been advanced (bounds the run)
  mqtt_enabled, \* settings.mqtt_enabled
  devices,      \* main.rs: devices: HashMap<String, BroodminderDevice>
  dispatcher,   \* position of the BTLE task: "scanning", "config", "state", "panicked", "ended"
  event,        \* the CentralEvent last taken from the stream
  device_id,    \* main.rs: the loop body's device_id
  tasks,        \* spawned publish tasks that have not run yet, each with its message
  handed,       \* <<device id, kind>> of the messages handed to the transport so far
  passes,       \* <<device id, "config" or "state">> -> the clock readings at which that
                \* sender found the device due, oldest first
  main          \* position of main's eventloop pump: "polling", "failed" (poll has
                \* returned Err) or "terminated" (main has returned, the process is gone)

vars == <<now, ticks, mqtt_enabled, devices, dispatcher, event, device_id,
          tasks, handed, passes, main>>

(***************************************************************************)
(* Bounds of the model                                                     *)
(***************************************************************************)
StartTime == 3600001    \* clock at start-up; any real epoch time exceeds both windows
MaxTicks == 2           \* clock advances per run

(***************************************************************************)
(* Program constants                                                       *)
(***************************************************************************)
BroodminderKey == 653
StateWindow == 30000
ConfigWindow == 3600000
TempModel == 47
ScaleModel == 57
ExpireAfter == 3600
LbsPerKg == 2204623    \* 2.204623, in millionths

Sentinel == <<"0", "0", ":", "0", "0", ":", "0", "0">>   \* "00:00:00"
Unknown == <<"(unknown)">>

(***************************************************************************)
(* Inputs: advertisement buffers, manufacturer maps, advertiser names      *)
(***************************************************************************)
Zeros(n) == [i \in 1..n |-> 0]

\* Well-formed 21-byte buffers (offsets 0..20).
Buf47 == <<47, 1, 1, 10, 90, 0, 0, 20, 30, 5>> \o Zeros(9) \o <<51, 130>>
Buf57 == <<57, 2, 3, 200, 80, 1, 2, 100, 21, 26>> \o Zeros(9) \o <<7, 140>>
BufOther == <<12, 0, 1, 7, 60, 0, 0, 7, 25, 25>> \o Zeros(9) \o <<0, 128>>
\* Buffers too short for some offset the decoder reads.
Short5 == <<47, 1, 1, 77, 55>>
Core10 == <<47, 1, 1, 77, 55, 3, 4, 88, 22, 27>>
Len20 == Core10 \o Zeros(8) \o <<9, 9>>

\* Option<String>: <<>> is None, <<s>> is Some(s).
None == <<>>
Some(s) == <<s>>
Hive1 == <<"4", "7", ":", "0", "1", ":", "0", "1">>   \* "47:01:01"

EmptyMap == [k \in {} |-> 0]

\* A CentralEvent::ManufacturerDataAdvertisement: manufacturer_data is the
\* HashMap<u16, Vec<u8>> as a function from the keys present to their buffers,
\* local_name what the peripheral's properties give for the advertiser.
Advertisement(m, n) ==
  [kind |-> "ManufacturerDataAdvertisement", manufacturer_data |-> m, local_name |-> n]

\* 76 is the manufacturer id of some other vendor's beacons.
Events ==
  {[kind |-> "DeviceDiscovered", manufacturer_data |-> EmptyMap, local_name |-> None],
   Advertisement((76 :> Buf47), Some(Hive1)),
   Advertisement((BroodminderKey :> Buf47), Some(Hive1)),
   Advertisement((76 :> Short5) @@ (BroodminderKey :> Buf57), Some(Hive1)),
   Advertisement((BroodminderKey :> BufOther), Some(Hive1)),
   Advertisement((BroodminderKey :> Short5), Some(Hive1)),
   Advertisement((BroodminderKey :> Core10), Some(Hive1)),
   Advertisement((BroodminderKey :> Len20), Some(Hive1)),
   Advertisement((BroodminderKey :> Buf47), None),
   Advertisement((BroodminderKey :> Short5), None)}

NoEvent == [kind |-> "none", manufacturer_data |-> EmptyMap, local_name |-> None]

(***************************************************************************)
(* broodminder_device.rs: the decoder                                      *)
(***************************************************************************)
\* data[i] of a Vec<u8>, i counted from 0; in range iff i < data.len().
InRange(data, i) == i < Len(data)
At(data, i) == data[i + 1]

\* A faulty variant of is_broodminder: key 653 has to be the only key.
is_broodminderAlone(data) == DOMAIN data = {BroodminderKey}

is_broodminder(data) == BroodminderKey \in DOMAIN data

\* A faulty variant of TemperatureC: the two bytes are taken in the other order.
TemperatureCSwapped(hi, lo) == 256 * lo + hi - 5000

\* Derived values as exact scaled integers.
\* (256*hi + lo - 5000) / 100, in hundredths of a degree C.
TemperatureC(hi, lo) == 256 * hi + lo - 5000
\* c * 9 / 5 + 32, in five-hundredths of a degree F.
TemperatureF(hi, lo) == TemperatureC(hi, lo) * 9 + 32 * 500
\* (256*w2 - w1 - 32767) / 100, in hundredths of a kg.
WeightKg(w1, w2) == 256 * w2 - w1 - 32767
\* 2.204623 * (256*w2 - w1 - 32767) / 100: the two factors, whose product is the
\* weight in 1e-8 lbs (the product itself exceeds the model checker's integers).
WeightLbs(w1, w2) == <<LbsPerKg, 256 * w2 - w1 - 32767>>

\* The highest offset the struct literal of build_broodminder_device and the
\* assignments of update read; a shorter buffer panics on the index.
LastOffset == 20
Decodable(data) == InRange(data, LastOffset)

build_broodminder_device(data) ==
  [device_id |-> Unknown,
   model |-> At(data, 0),
   minor_version |-> At(data, 1),
   major_version |-> At(data, 2),
   realtime_temp1 |-> At(data, 3),
   battery_percent |-> At(data, 4),
   elapsed1 |-> At(data, 5),
   elapsed2 |-> At(data, 6),
   temp1 |-> At(data, 7),
   temp2 |-> At(data, 8),
   realtime_temp2 |-> At(data, 9),
   realtime_weight1 |-> At(data, 19),
   realtime_weight2 |-> At(data, 20),
   realtime_temperature_c |-> TemperatureC(At(data, 9), At(data, 3)),
   realtime_temperature_f |-> TemperatureF(At(data, 9), At(data, 3)),
   temperature_c |-> TemperatureC(At(data, 8), At(data, 7)),
   temperature_f |-> TemperatureF(At(data, 8), At(data, 7)),
   realtime_weight_kg |-> WeightKg(At(data, 19), At(data, 20)),
   realtime_weight_lbs |-> WeightLbs(At(data, 19), At(data, 20)),
   last_config_sent |-> 0,
   last_state_sent |-> 0]

\* update assigns the raw fields in this order, each from one offset, and then
\* the derived fields; the first offset out of range panics and the
\* assignments before it have been made.
RawField(self, data, f, i) == IF InRange(data, i) THEN At(data, i) ELSE self[f]

\* A faulty variant of update: model and versions are taken from the
\* advertisement as well.
updateTakesModel(self, data) ==
  IF Decodable(data)
  THEN [build_broodminder_device(data) EXCEPT
          !.device_id = self.device_id,
          !.last_config_sent = self.last_config_sent,
          !.last_state_sent = self.last_state_sent]
  ELSE self

\* A faulty variant of update: the record is rebuilt from the advertisement and
\* only the identity kept, which loses the model first seen and the timestamps.
updateRebuilds(self, data) ==
  IF Decodable(data)
  THEN [build_broodminder_device(data) EXCEPT !.device_id = self.device_id]
  ELSE self

update(self, data) ==
  IF Decodable(data)
  THEN [self EXCEPT
          !.realtime_temp1 = At(data, 3),
          !.battery_percent = At(data, 4),
          !.elapsed1 = At(data, 5),
          !.elapsed2 = At(data, 6),
          !.temp1 = At(data, 7),
          !.temp2 = At(data, 8),
          !.realtime_temp2 = At(data, 9),
          !.realtime_weight1 = At(data, 19),
          !.realtime_weight2 = At(data, 20),
          !.realtime_temperature_c = TemperatureC(At(data, 9), At(data, 3)),
          !.realtime_temperature_f = TemperatureF(At(data, 9), At(data, 3)),
          !.temperature_c = TemperatureC(At(data, 8), At(data, 7)),
          !.temperature_f = TemperatureF(At(data, 8), At(data, 7)),
          !.realtime_weight_kg = WeightKg(At(data, 19), At(data, 20)),
          !.realtime_weight_lbs = WeightLbs(At(data, 19), At(data, 20))]
  ELSE [self EXCEPT
          !.realtime_temp1 = RawField(self, data, "realtime_temp1", 3),
          !.battery_percent = RawField(self, data, "battery_percent", 4),
          !.elapsed1 = RawField(self, data, "elapsed1", 5),
          !.elapsed2 = RawField(self, data, "elapsed2", 6),
          !.temp1 = RawField(self, data, "temp1", 7),
          !.temp2 = RawField(self, data, "temp2", 8),
          !.realtime_temp2 = RawField(self, data, "realtime_temp2", 9),
          !.realtime_weight1 = RawField(self, data, "realtime_weight1", 19)]

(***************************************************************************)
(* broodminder_device.rs: the messages                                     *)
(***************************************************************************)
NotColon(c) == c # ":"
\* self.device_id.clone().replace(":", "")
simple_id(self) == SelectSeq(self.device_id, NotColon)

\* A faulty variant of StateTopic: the identity is used with its separators.
StateTopicWithColons(self) == <<"homeassistant/sensor/BM">> \o self.device_id \o <<"/state">>

\* format!("homeassistant/sensor/BM{}/state", simple_id) in send_state_message
StateTopic(self) == <<"homeassistant/sensor/BM">> \o simple_id(self) \o <<"/state">>
\* the same format!() in the two configuration messages
ConfigStateTopic(self) == <<"homeassistant/sensor/BM">> \o simple_id(self) \o <<"/state">>
TempConfigTopic(self) == <<"homeassistant/sensor/BM">> \o simple_id(self) \o <<"Temp/config">>
WeightConfigTopic(self) == <<"homeassistant/sensor/BM">> \o simple_id(self) \o <<"Weight/config">>

HasTemperature(self) == self.model = TempModel \/ self.model = ScaleModel
\* A faulty variant of HasWeight: the test of the temperature channel copied.
HasWeightLikeTemperature(self) == self.model = TempModel \/ self.model = ScaleModel
HasWeight(self) == self.model = ScaleModel

\* The JSON object of a state message, as a function from its keys.
StateWeightPart(self) ==
  IF HasWeight(self) THEN ("weight_lbs" :> self.realtime_weight_lbs) ELSE EmptyMap
state_message(self) ==
  ("temperature_c" :> self.realtime_temperature_c) @@ StateWeightPart(self)

TempConfigMessage(self) ==
  [name |-> self.device_id \o <<"_temperature">>,
   device_class |-> "temperature",
   expire_after |-> ExpireAfter,
   force_update |-> TRUE,
   state_class |-> "measurement",
   unit_of_measurement |-> "C",
   state_topic |-> ConfigStateTopic(self),
   value_template |-> "temperature_c",
   unique_id |-> simple_id(self) \o <<"_temperature">>]

WeightConfigMessage(self) ==
  [name |-> self.device_id \o <<"_weight">>,
   expire_after |-> ExpireAfter,
   force_update |-> TRUE,
   state_class |-> "measurement",
   unit_of_measurement |-> "kg",
   state_topic |-> ConfigStateTopic(self),
   value_template |-> "weight_lbs",
   unique_id |-> simple_id(self) \o <<"_weight">>]

\* One message handed to a spawned publish task; at is the clock reading of the
\* rate-limit test that let it through.
Message(k, self, topic, payload, t) ==
  [kind |-> k, device_id |-> self.device_id, topic |-> topic, payload |-> payload, at |-> t]

\* Faulty variants of the guards, used to show that the properties below depend
\* on them: the sentinel test left out, and the window test off by one.
StateSuppressedNever(self) == FALSE
ConfigSuppressedNever(self) == FALSE
StateDueInclusive(self, t) == t - self.last_state_sent >= StateWindow
ConfigDueInclusive(self, t) == t - self.last_config_sent >= ConfigWindow

\* The guards of the two senders.
StateSuppressed(self) == self.device_id = Sentinel
ConfigSuppressed(self) == self.device_id = Sentinel
StateDue(self, t) == t - self.last_state_sent > StateWindow
ConfigDue(self, t) == t - self.last_config_sent > ConfigWindow

\* The publish tasks send_config_messages spawns, in order.
ConfigMessages(self, t) ==
  (IF HasTemperature(self)
     THEN <<Message("config_temp", self, TempConfigTopic(self), TempConfigMessage(self), t)>>
     ELSE <<>>)
  \o (IF HasWeight(self)
        THEN <<Message("config_weight", self, WeightConfigTopic(self),
                       WeightConfigMessage(self), t)>>
        ELSE <<>>)

StateMessages(self, t) ==
  <<Message("state", self, StateTopic(self), state_message(self), t)>>

\* The second reading of the clock, stored as the time of the last send.
ConfigStamp(t, s) == t + s
StateStamp(t, s) == t + s

(***************************************************************************)
(* The program                                                             *)
(***************************************************************************)
Ticks == {1, StateWindow, ConfigWindow}
\* Milliseconds that pass between the two clock readings of one sender.
Skews == {0, 1}

unwrap_or(opt, default) == IF opt = None THEN default ELSE opt[1]

Init ==
  /\ now = StartTime
  /\ ticks = 0
  /\ mqtt_enabled \in BOOLEAN
  /\ devices = EmptyMap
  /\ dispatcher = "scanning"
  /\ event = NoEvent
  /\ device_id = <<>>
  /\ tasks = {}
  /\ handed = {}
  /\ passes = EmptyMap
  /\ main = "polling"

\* Time passes while the BTLE task waits for its next event. The loop body has no
\* await between the upsert and the end of send_state_message, so what passes
\* there is only the skew between clock readings.
Tick(d) ==
  /\ main # "terminated"
  /\ dispatcher = "scanning"
  /\ ticks < MaxTicks
  /\ ticks' = ticks + 1
  /\ now' = now + d
  /\ UNCHANGED <<mqtt_enabled, devices, dispatcher, event, device_id,
                 tasks, handed, passes, main>>

\* A faulty variant of Upsert: every advertisement builds a record and inserts
\* it over the cached one.
UpsertAlwaysInserts(id, data) ==
  IF Decodable(data)
    THEN [k \in DOMAIN devices \cup {id} |->
            IF k = id THEN [build_broodminder_device(data) EXCEPT !.device_id = id]
                      ELSE devices[k]]
    ELSE devices

\* main.rs 81-96: update the cached device or build and insert a new one.
\* A buffer too short for an offset panics the task: update has then made the
\* assignments before the failing index, build has made no record.
Upsert(id, data) ==
  IF id \in DOMAIN devices
    THEN [devices EXCEPT ![id] = update(@, data)]
    ELSE IF Decodable(data)
           THEN devices @@ (id :> [build_broodminder_device(data) EXCEPT !.device_id = id])
           ELSE devices

\* Where the loop body goes after the upsert.
AfterUpsert(data) ==
  IF ~Decodable(data) THEN "panicked"
  ELSE IF mqtt_enabled THEN "config"
  ELSE "scanning"

\* A faulty variant of NextEvent: the senders run only for a device that was
\* already cached.
NextEventPublishesKnown(ev) ==
  /\ main # "terminated"
  /\ dispatcher = "scanning"
  /\ tasks = {}
  /\ event' = ev
  /\ IF ev.kind = "ManufacturerDataAdvertisement" /\ is_broodminder(ev.manufacturer_data)
       THEN LET id == unwrap_or(ev.local_name, Sentinel)
                data == ev.manufacturer_data[BroodminderKey]
            IN /\ device_id' = id
               /\ devices' = Upsert(id, data)
               /\ dispatcher' = IF Decodable(data) /\ id \notin DOMAIN devices
                                  THEN "scanning" ELSE AfterUpsert(data)
       ELSE /\ device_id' = <<>>
            /\ UNCHANGED <<devices, dispatcher>>
  /\ UNCHANGED <<now, ticks, mqtt_enabled, tasks, handed, passes, main>>

\* main.rs 65-96: one event is taken from the stream, classified, its device
\* identity resolved and the cache upserted.
\* Scheduling restriction of the model: advertisements arrive seconds apart, and
\* the next one is taken once the publish tasks of the previous dispatch have
\* run; within one dispatch every interleaving of its tasks is explored.
NextEvent(ev) ==
  /\ main # "terminated"
  /\ dispatcher = "scanning"
  /\ tasks = {}
  /\ event' = ev
  /\ IF ev.kind = "ManufacturerDataAdvertisement" /\ is_broodminder(ev.manufacturer_data)
       THEN LET id == unwrap_or(ev.local_name, Sentinel)
                data == ev.manufacturer_data[BroodminderKey]
            IN /\ device_id' = id
               /\ devices' = Upsert(id, data)
               /\ dispatcher' = AfterUpsert(data)
       ELSE /\ device_id' = <<>>
            /\ UNCHANGED <<devices, dispatcher>>
  /\ UNCHANGED <<now, ticks, mqtt_enabled, tasks, handed, passes, main>>

\* tokio::task::spawn of one publish task per message.
Spawn(msgs) == tasks' = tasks \cup {msgs[i] : i \in 1..Len(msgs)}

\* The log of passes, with one more reading t under key k.
Logged(k, t) ==
  IF k \in DOMAIN passes
    THEN [passes EXCEPT ![k] = Append(@, t)]
    ELSE passes @@ (k :> <<t>>)

\* A faulty variant of SendConfig: last_config_sent is written only when a
\* configuration message was built.
SendConfigStampsWhatItSends ==
  /\ main # "terminated"
  /\ dispatcher = "config"
  /\ dispatcher' = "state"
  /\ LET self == devices[device_id] IN
       IF ~ConfigSuppressed(self) /\ ConfigDue(self, now)
         THEN \E s \in Skews :
                /\ Spawn(ConfigMessages(self, now))
                /\ passes' = Logged(<<device_id, "config">>, now)
                /\ devices' = IF ConfigMessages(self, now) = <<>> THEN devices
                              ELSE [devices EXCEPT
                                      ![device_id].last_config_sent = ConfigStamp(now, s)]
                /\ now' = now + s
         ELSE UNCHANGED <<tasks, passes, devices, now>>
  /\ UNCHANGED <<ticks, mqtt_enabled, event, device_id, handed, main>>

\* main.rs 100-102 with send_config_messages.
SendConfig ==
  /\ main # "terminated"
  /\ dispatcher = "config"
  /\ dispatcher' = "state"
  /\ LET self == devices[device_id] IN
       IF ~ConfigSuppressed(self) /\ ConfigDue(self, now)
         THEN \E s \in Skews :
                /\ Spawn(ConfigMessages(self, now))
                /\ passes' = Logged(<<device_id, "config">>, now)
                /\ devices' = [devices EXCEPT ![device_id].last_config_sent = ConfigStamp(now, s)]
                /\ now' = now + s
         ELSE UNCHANGED <<tasks, passes, devices, now>>
  /\ UNCHANGED <<ticks, mqtt_enabled, event, device_id, handed, main>>

\* A faulty variant of SendState: a state pass writes both timestamps.
SendStateStampsBoth ==
  /\ main # "terminated"
  /\ dispatcher = "state"
  /\ dispatcher' = "scanning"
  /\ LET self == devices[device_id] IN
       IF ~StateSuppressed(self) /\ StateDue(self, now)
         THEN \E s \in Skews :
                /\ Spawn(StateMessages(self, now))
                /\ passes' = Logged(<<device_id, "state">>, now)
                /\ devices' = [devices EXCEPT
                                ![device_id].last_state_sent = StateStamp(now, s),
                                ![device_id].last_config_sent = StateStamp(now, s)]
                /\ now' = now + s
         ELSE UNCHANGED <<tasks, passes, devices, now>>
  /\ UNCHANGED <<ticks, mqtt_enabled, event, device_id, handed, main>>

\* main.rs 104-106 with send_state_message.
SendState ==
  /\ main # "terminated"
  /\ dispatcher = "state"
  /\ dispatcher' = "scanning"
  /\ LET self == devices[device_id] IN
       IF ~StateSuppressed(self) /\ StateDue(self, now)
         THEN \E s \in Skews :
                /\ Spawn(StateMessages(self, now))
                /\ passes' = Logged(<<device_id, "state">>, now)
                /\ devices' = [devices EXCEPT ![device_id].last_state_sent = StateStamp(now, s)]
                /\ now' = now + s
         ELSE UNCHANGED <<tasks, passes, devices, now>>
  /\ UNCHANGED <<ticks, mqtt_enabled, event, device_id, handed, main>>

\* main.rs 65: the event stream ends and the BTLE task returns.
StreamEnd ==
  /\ main # "terminated"
  /\ dispatcher = "scanning"
  /\ dispatcher' = "ended"
  /\ UNCHANGED <<now, ticks, mqtt_enabled, devices, event, device_id,
                 tasks, handed, passes, main>>

\* A spawned task runs: client.publish(...).await hands its message to the
\* transport and returns Ok, which is logged.
RunPublishTask(m) ==
  /\ main # "terminated"
  /\ m \in tasks
  /\ tasks' = tasks \ {m}
  /\ handed' = handed \cup {<<m.device_id, m.kind>>}
  /\ UNCHANGED <<now, ticks, mqtt_enabled, devices, dispatcher, event, device_id,
                 passes, main>>

\* A faulty variant of PublishFails: the failed task clears the timestamp of its
\* pass, so that the next dispatch sends the message again.
PublishFailsAndRollsBack(m) ==
  /\ main # "terminated"
  /\ m \in tasks
  /\ tasks' = tasks \ {m}
  /\ devices' = [devices EXCEPT ![m.device_id] =
                   IF m.kind = "state" THEN [@ EXCEPT !.last_state_sent = 0]
                                       ELSE [@ EXCEPT !.last_config_sent = 0]]
  /\ UNCHANGED <<now, ticks, mqtt_enabled, dispatcher, event, device_id,
                 handed, passes, main>>

\* A spawned task runs and client.publish(...).await returns Err: the error is
\* logged and the task ends; the transport has not taken the message.
PublishFails(m) ==
  /\ main # "terminated"
  /\ m \in tasks
  /\ tasks' = tasks \ {m}
  /\ UNCHANGED <<now, ticks, mqtt_enabled, devices, dispatcher, event, device_id,
                 handed, passes, main>>

\* main.rs 114-126: eventloop.poll() returns Ok; the event is logged and the
\* loop goes on. Nothing of the program's own state changes.
Poll ==
  /\ main = "polling"
  /\ UNCHANGED vars

\* main.rs 115-116, 127: eventloop.poll() returns Err.
PollError ==
  /\ main = "polling"
  /\ main' = "failed"
  /\ UNCHANGED <<now, ticks, mqtt_enabled, devices, dispatcher, event, device_id,
                 tasks, handed, passes>>

\* A faulty variant of Terminate: the error is logged and the loop polls again.
TerminateRetries ==
  /\ main = "failed"
  /\ main' = "polling"
  /\ UNCHANGED <<now, ticks, mqtt_enabled, devices, dispatcher, event, device_id,
                 tasks, handed, passes>>

\* main.rs 128-134: the error is logged, main breaks out of the loop and
\* returns, which ends the process and every task with it.
Terminate ==
  /\ main = "failed"
  /\ main' = "terminated"
  /\ UNCHANGED <<now, ticks, mqtt_enabled, devices, dispatcher, event, device_id,
                 tasks, handed, passes>>

Next ==
  \/ \E d \in Ticks : Tick(d)
  \/ \E ev \in Events : NextEvent(ev)
  \/ SendConfig
  \/ SendState
  \/ StreamEnd
  \/ \E m \in tasks : RunPublishTask(m)
  \/ Poll
  \/ PollError
  \/ Terminate

\* The advertisements of a resolved hive whose dispatch publishes.
PublishingEvents ==
  {ev \in Events : /\ ev.kind = "ManufacturerDataAdvertisement"
                   /\ is_broodminder(ev.manufacturer_data)
                   /\ ev.local_name = Some(Hive1)
                   /\ ev.manufacturer_data[BroodminderKey] \in {Buf47, Buf57}}

\* The program in front of a transport whose publish can fail, fed with the
\* advertisements that publish.
NextFailing ==
  \/ \E d \in Ticks : Tick(d)
  \/ \E ev \in PublishingEvents : NextEvent(ev)
  \/ SendConfig
  \/ SendState
  \/ StreamEnd
  \/ \E m \in tasks : RunPublishTask(m)
  \/ \E m \in tasks : PublishFails(m)
  \/ Poll
  \/ PollError
  \/ Terminate

Spec == Init /\ [][Next]_vars
SpecFailing == Init /\ [][NextFailing]_vars

(***************************************************************************)
(* Properties                                                              *)
(***************************************************************************)
ConfigKinds == {"config_temp", "config_weight"}
\* The steps of the two senders, and the messages a step spawns.
ConfigStep == dispatcher = "config" /\ dispatcher' = "state"
StateStep == dispatcher = "state" /\ dispatcher' = "scanning"
Spawned == tasks' \ tasks
LastOf(seq) == seq[Len(seq)]
Changed(k) == k \notin DOMAIN passes \/ passes'[k] # passes[k]

\* C1: no configuration message and no state message is ever built, logged as
\* sent, or handed to the transport for the identity "00:00:00", however long
\* ago its timestamps were set.
C1_NoMessageForSentinel ==
  /\ \A m \in tasks : m.device_id # Sentinel
  /\ \A k \in handed : k[1] # Sentinel
  /\ \A k \in DOMAIN passes : k[1] # Sentinel

\* The sentinel device is cached, both windows have long elapsed, time has
\* passed, and both senders have just been run on it.
C1_Witness ==
  /\ mqtt_enabled
  /\ Sentinel \in DOMAIN devices
  /\ device_id = Sentinel
  /\ dispatcher = "scanning"
  /\ ticks > 0
  /\ now - devices[Sentinel].last_config_sent > ConfigWindow
  /\ now - devices[Sentinel].last_state_sent > StateWindow

\* C2 as stated: a state evaluation of a resolved device at now emits exactly
\* one state message and sets last_state_sent to now when
\* now - last_state_sent > 30000, and otherwise emits nothing and leaves
\* last_state_sent unchanged.
C2_StampIsEvaluationTime ==
  [][StateStep /\ device_id # Sentinel =>
       LET self == devices[device_id] IN
         IF now - self.last_state_sent > StateWindow
           THEN /\ Cardinality(Spawned) = 1
                /\ \A m \in Spawned : m.kind = "state" /\ m.device_id = device_id
                /\ devices'[device_id].last_state_sent = now
           ELSE /\ Spawned = {}
                /\ devices'[device_id].last_state_sent = self.last_state_sent]_vars

\* C2 as amended: as above, except that last_state_sent is set to a second
\* reading of the clock, taken after the message has been given to its publish
\* task, which is at least now; and two state emissions for one device are more
\* than 30000 ms apart.
C2_StateRateLimit ==
  /\ [][StateStep /\ device_id # Sentinel =>
          LET self == devices[device_id] IN
            IF now - self.last_state_sent > StateWindow
              THEN /\ Cardinality(Spawned) = 1
                   /\ \A m \in Spawned : m.kind = "state" /\ m.device_id = device_id
                   /\ devices'[device_id].last_state_sent = now'
                   /\ now' >= now
                   /\ LastOf(passes'[<<device_id, "state">>]) = now
              ELSE /\ Spawned = {}
                   /\ passes' = passes
                   /\ devices'[device_id].last_state_sent = self.last_state_sent]_vars
  /\ [][\A m \in Spawned : m.kind = "state" => StateStep]_vars
  /\ [](\A k \in DOMAIN passes :
          k[2] = "state" =>
            \A i \in 1..(Len(passes[k]) - 1) : passes[k][i + 1] - passes[k][i] > StateWindow)

\* A second state message went out exactly 30001 ms after the reading that let
\* the first one through.
C2_Witness ==
  /\ <<Hive1, "state">> \in DOMAIN passes
  /\ Len(passes[<<Hive1, "state">>]) >= 2
  /\ passes[<<Hive1, "state">>][2] - passes[<<Hive1, "state">>][1] = StateWindow + 1
  /\ dispatcher = "scanning"

\* C3: configuration messages are spawned only by a configuration evaluation
\* of a resolved device with now - last_config_sent > 3600000, and two
\* configuration passes for one device are more than 3600000 ms apart.
C3_ConfigRateLimit ==
  /\ [][\A m \in Spawned :
          m.kind \in ConfigKinds =>
            /\ ConfigStep
            /\ m.device_id = device_id
            /\ device_id # Sentinel
            /\ now - devices[device_id].last_config_sent > ConfigWindow]_vars
  /\ [][\A k \in DOMAIN passes' :
          k[2] = "config" /\ Changed(k) =>
            /\ ConfigStep
            /\ k[1] = device_id
            /\ device_id # Sentinel
            /\ now - devices[device_id].last_config_sent > ConfigWindow]_vars
  /\ [](\A k \in DOMAIN passes :
          k[2] = "config" =>
            \A i \in 1..(Len(passes[k]) - 1) : passes[k][i + 1] - passes[k][i] > ConfigWindow)

\* Two configuration passes have been made for one device, the second with
\* messages still waiting to be published.
C3_Witness ==
  /\ <<Hive1, "config">> \in DOMAIN passes
  /\ Len(passes[<<Hive1, "config">>]) >= 2
  /\ \E m \in tasks : m.kind \in ConfigKinds

\* The advertisement ev is recognized and this step dispatches it.
Recognized(ev) ==
  ev.kind = "ManufacturerDataAdvertisement" /\ 653 \in DOMAIN ev.manufacturer_data
Dispatched(ev) == Recognized(ev) /\ NextEvent(ev)
IdOf(ev) == IF ev.local_name = <<>> THEN Sentinel ELSE ev.local_name[1]
DataOf(ev) == ev.manufacturer_data[653]

\* The reading fields of a record as the byte layout and the formulas give
\* them for a 21-byte buffer d (d[i + 1] is the byte at offset i).
ExpectedReading(d) ==
  [realtime_temp1 |-> d[4],
   battery_percent |-> d[5],
   elapsed1 |-> d[6],
   elapsed2 |-> d[7],
   temp1 |-> d[8],
   temp2 |-> d[9],
   realtime_temp2 |-> d[10],
   realtime_weight1 |-> d[20],
   realtime_weight2 |-> d[21],
   realtime_temperature_c |-> 256 * d[10] + d[4] - 5000,
   realtime_temperature_f |-> (256 * d[10] + d[4] - 5000) * 9 + 16000,
   temperature_c |-> 256 * d[9] + d[8] - 5000,
   temperature_f |-> (256 * d[9] + d[8] - 5000) * 9 + 16000,
   realtime_weight_kg |-> 256 * d[21] - d[20] - 32767,
   realtime_weight_lbs |-> <<2204623, 256 * d[21] - d[20] - 32767>>]
ExpectedHead(d) == [model |-> d[1], minor_version |-> d[2], major_version |-> d[3]]
Agrees(rec, expected) == \A f \in DOMAIN expected : rec[f] = expected[f]
Keeps(id, fields) == \A f \in fields : devices'[id][f] = devices[id][f]

\* C4 as stated: an upsert on a new identity creates a record with both
\* timestamps 0 and the decoded reading; an upsert on a cached identity
\* overwrites all the decoded reading fields (model, minor_version and
\* major_version are decoded fields) and leaves device_id, last_config_sent and
\* last_state_sent unchanged.
C4_UpsertOverwritesAllDecoded ==
  [][\A ev \in Events :
       Dispatched(ev) /\ Len(DataOf(ev)) > 20 =>
         LET id == IdOf(ev)
             d == DataOf(ev)
         IN /\ id \in DOMAIN devices'
            /\ Agrees(devices'[id], ExpectedReading(d))
            /\ Agrees(devices'[id], ExpectedHead(d))
            /\ IF id \in DOMAIN devices
                 THEN Keeps(id, {"device_id", "last_config_sent", "last_state_sent"})
                 ELSE /\ devices'[id].device_id = id
                      /\ devices'[id].last_config_sent = 0
                      /\ devices'[id].last_state_sent = 0]_vars

\* C4 as amended: an upsert on a cached identity overwrites the raw bytes of
\* offsets 3-9 and 19-20 and the six derived values, and leaves device_id,
\* model, minor_version, major_version and both timestamps unchanged; no other
\* record changes.
C4_Upsert ==
  [][\A ev \in Events :
       Dispatched(ev) /\ Len(DataOf(ev)) > 20 =>
         LET id == IdOf(ev)
             d == DataOf(ev)
         IN /\ DOMAIN devices' = DOMAIN devices \cup {id}
            /\ \A other \in DOMAIN devices \ {id} : devices'[other] = devices[other]
            /\ Agrees(devices'[id], ExpectedReading(d))
            /\ IF id \in DOMAIN devices
                 THEN Keeps(id, {"device_id", "model", "minor_version", "major_version",
                                 "last_config_sent", "last_state_sent"})
                 ELSE /\ Agrees(devices'[id], ExpectedHead(d))
                      /\ devices'[id].device_id = id
                      /\ devices'[id].last_config_sent = 0
                      /\ devices'[id].last_state_sent = 0]_vars

\* A cached device with timestamps already set has just been updated from an
\* advertisement whose model byte is not the model of the record.
C4_Witness ==
  /\ Recognized(event)
  /\ dispatcher = "config"
  /\ Len(DataOf(event)) > 20
  /\ devices[device_id].model # DataOf(event)[1]
  /\ devices[device_id].realtime_temp1 = DataOf(event)[4]
  /\ devices[device_id].last_state_sent > 0
  /\ devices[device_id].last_config_sent > 0

\* C5: a device's state message is handed to the transport only after a
\* configuration message of that device has been.
C5_ConfigBeforeState ==
  \A k \in handed :
    k[2] = "state" => \E c \in handed : c[1] = k[1] /\ c[2] \in ConfigKinds

\* C6: a recognized advertisement with a buffer too short for the offsets read
\* is dropped and the dispatch loop lives on.
C6_LoopSurvivesMalformed ==
  Recognized(event) /\ Len(DataOf(event)) <= 20 => dispatcher # "panicked"

\* C7: dispatching a recognized advertisement with a buffer shorter than 10
\* leaves the registry exactly as it was.
C7_ShortBufferLeavesRegistry ==
  [][\A ev \in Events :
       Dispatched(ev) /\ Len(DataOf(ev)) < 10 => devices' = devices]_vars

\* C8: a recognized advertisement of at least 10 bytes whose model byte is not
\* 57 is decoded into its core fields and upserted.
C8_CoreFieldsSuffice ==
  [][\A ev \in Events :
       Dispatched(ev) /\ Len(DataOf(ev)) >= 10 /\ DataOf(ev)[1] # 57 =>
         LET id == IdOf(ev)
             d == DataOf(ev)
         IN /\ dispatcher' # "panicked"
            /\ id \in DOMAIN devices'
            /\ devices'[id].realtime_temp1 = d[4]
            /\ devices'[id].realtime_temp2 = d[10]
            /\ devices'[id].realtime_temperature_c = 256 * d[10] + d[4] - 5000]_vars

\* C9: every state message spawned carries temperature_c with the record's
\* realtime temperature, carries weight_lbs exactly when the record's model is
\* 57, and for model 47 has temperature_c as its only key.
C9_StatePayload ==
  [][\A m \in Spawned :
       m.kind = "state" =>
         LET self == devices[m.device_id] IN
           /\ "temperature_c" \in DOMAIN m.payload
           /\ m.payload["temperature_c"] = self.realtime_temperature_c
           /\ ("weight_lbs" \in DOMAIN m.payload) <=> (self.model = 57)
           /\ self.model = 47 => DOMAIN m.payload = {"temperature_c"}]_vars

\* A state message with both keys, and none but them, waits to be published.
C9_Witness ==
  \E m \in tasks :
    m.kind = "state" /\ DOMAIN m.payload = {"temperature_c", "weight_lbs"}

\* C10: a sender run on the sentinel identity spawns nothing and changes no
\* record; with publishing disabled a dispatch upserts, spawns nothing and
\* never sets a timestamp.
C10_SkippedPassLeavesStamps ==
  /\ [][(ConfigStep \/ StateStep) /\ device_id = Sentinel =>
          Spawned = {} /\ devices' = devices /\ passes' = passes]_vars
  /\ [][\A ev \in Events :
          Dispatched(ev) /\ ~mqtt_enabled /\ Len(DataOf(ev)) > 20 =>
            LET id == IdOf(ev) IN
              /\ dispatcher' = "scanning"
              /\ Spawned = {}
              /\ passes' = passes
              /\ id \in DOMAIN devices'
              /\ Agrees(devices'[id], ExpectedReading(DataOf(ev)))
              /\ id \in DOMAIN devices => Keeps(id, {"last_config_sent", "last_state_sent"})]_vars
  /\ [](~mqtt_enabled =>
          /\ tasks = {}
          /\ handed = {}
          /\ \A id \in DOMAIN devices :
               devices[id].last_config_sent = 0 /\ devices[id].last_state_sent = 0)

\* With publishing disabled, a resolved device and the sentinel device are
\* cached, time has passed, and the last event was dispatched to the end.
C10_Witness ==
  /\ ~mqtt_enabled
  /\ {Hive1, Sentinel} \subseteq DOMAIN devices
  /\ ticks > 0
  /\ Recognized(event)
  /\ dispatcher = "scanning"
  /\ now - devices[Hive1].last_state_sent > StateWindow


\* A step in which the publish task of m ends without the transport having
\* taken its message.
FailedPublish(m) ==
  /\ m \in tasks
  /\ m \notin tasks'
  /\ <<m.device_id, m.kind>> \notin handed'

\* C11: when a publish attempt fails in the transport, the timestamp set by the
\* pass that spawned it is not rolled back, the message is not attempted again
\* (its task is gone and none takes its place, so the window set by that pass
\* still guards the next attempt), and the other messages of the same dispatch
\* stay submitted and the dispatcher goes on where it was.
C11_FailedPublishIsNotRetried ==
  [][\A m \in tasks : FailedPublish(m) =>
       /\ devices' = devices
       /\ passes' = passes
       /\ tasks' = tasks \ {m}
       /\ dispatcher' = dispatcher
       /\ LET self == devices'[m.device_id] IN
            IF m.kind = "state"
              THEN self.last_state_sent >= m.at /\ ~StateDue(self, m.at + StateWindow)
              ELSE self.last_config_sent >= m.at /\ ~ConfigDue(self, m.at + ConfigWindow)]_vars

\* The temperature configuration publish of a scale has failed, its weight
\* configuration and its state were still handed over, the configuration
\* timestamp stands, and a later dispatch, more than 30 s on, has sent state
\* again but no configuration.
C11_Witness ==
  /\ Hive1 \in DOMAIN devices
  /\ devices[Hive1].model = ScaleModel
  /\ dispatcher = "scanning"
  /\ tasks = {}
  /\ <<Hive1, "config_temp">> \notin handed
  /\ <<Hive1, "config_weight">> \in handed
  /\ <<Hive1, "state">> \in handed
  /\ devices[Hive1].last_config_sent >= StartTime
  /\ <<Hive1, "config">> \in DOMAIN passes
  /\ Len(passes[<<Hive1, "config">>]) = 1
  /\ Len(passes[<<Hive1, "state">>]) = 2

\* C12: when the connection loop reports an unrecoverable error the program
\* terminates: the loop does not go back to polling, and once main has returned
\* no advertisement is dispatched, no sender runs, no message is spawned or
\* handed over, and no record changes.
C12_FatalErrorTerminates ==
  [][/\ main = "failed" => main' # "polling"
     /\ main = "terminated" =>
          /\ main' = "terminated"
          /\ UNCHANGED <<now, ticks, devices, dispatcher, event, device_id,
                         tasks, handed, passes>>]_vars

\* main has returned while a dispatch was between its two senders and publish
\* tasks were still pending.
C12_Witness ==
  /\ main = "terminated"
  /\ dispatcher = "state"
  /\ tasks # {}

\* The record of the advertiser of the event in hand, decoded from the buffer
\* [47,1,1,10,90,0,0,20,30,5,...] by build or by update.
DecodedFromBuf47 ==
  /\ event.kind = "ManufacturerDataAdvertisement"
  /\ is_broodminder(event.manufacturer_data)
  /\ event.manufacturer_data[BroodminderKey] = Buf47
  /\ device_id \in DOMAIN devices

\* C13 as stated: decoding the buffer [47,1,1,10,90,0,0,20,30,5,...] yields
\* realtime_temperature_c = -37.5, that is -3750 hundredths of a degree.
C13_DecodesToMinus3750 ==
  DecodedFromBuf47 => devices[device_id].realtime_temperature_c = -3750

\* C13 as amended: decoding the buffer [47,1,1,10,90,0,0,20,30,5,...] (byte 9
\* is 5, byte 3 is 10) yields realtime_temperature_c = (256*5 + 10 - 5000)/100
\* = -37.1, that is -3710 hundredths of a degree.
C13_DecodesToMinus3710 ==
  DecodedFromBuf47 => devices[device_id].realtime_temperature_c = -3710

\* The buffer has been decoded by update into a record that an earlier
\* advertisement of a scale had built.
C13_Witness ==
  /\ DecodedFromBuf47
  /\ device_id = Hive1
  /\ devices[Hive1].model = ScaleModel
  /\ devices[Hive1].realtime_temp2 = 5
  /\ devices[Hive1].realtime_temp1 = 10

\* C14: no record is ever dropped from the cache, and no step, upsert or
\* sender, sets last_config_sent or last_state_sent of a record to a value
\* smaller than the one it had.
C14_StampsNeverDecrease ==
  [][\A id \in DOMAIN devices :
       /\ id \in DOMAIN devices'
       /\ devices'[id].last_config_sent >= devices[id].last_config_sent
       /\ devices'[id].last_state_sent >= devices[id].last_state_sent]_vars

\* The record has been stamped by both senders, updated by a later
\* advertisement, and stamped by the state sender a second time.
C14_Witness ==
  /\ Hive1 \in DOMAIN devices
  /\ <<Hive1, "state">> \in DOMAIN passes
  /\ Len(passes[<<Hive1, "state">>]) = 2
  /\ devices[Hive1].last_config_sent >= StartTime
  /\ devices[Hive1].last_state_sent > devices[Hive1].last_config_sent + StateWindow

\* An advertisement whose manufacturer map has key 653, whatever else it has.
HasKey653(ev) ==
  ev.kind = "ManufacturerDataAdvertisement" /\ 653 \in DOMAIN ev.manufacturer_data

\* C15: is_broodminder is true exactly when key 653 is among the keys of the
\* manufacturer map, whatever other keys there are; taking an advertisement
\* without key 653 resolves no identity, decodes nothing, changes no record,
\* runs no sender and spawns no message, and taking one with key 653 resolves
\* its identity and goes on to the upsert.
C15_OnlyKey653IsDispatched ==
  [][\A ev \in Events : NextEvent(ev) =>
       /\ ev.kind = "ManufacturerDataAdvertisement" =>
            (is_broodminder(ev.manufacturer_data) <=> HasKey653(ev))
       /\ HasKey653(ev) => device_id' = IdOf(ev)
       /\ ~HasKey653(ev) =>
            /\ device_id' = <<>>
            /\ dispatcher' = "scanning"
            /\ UNCHANGED <<devices, tasks, handed, passes, now>>]_vars

\* An advertisement carrying only key 76, with a full BroodMinder buffer under
\* it and the name of a cached hive whose two windows have both elapsed, has
\* been taken and has left everything as it was.
C15_Witness ==
  /\ event = Advertisement((76 :> Buf47), Some(Hive1))
  /\ device_id = <<>>
  /\ mqtt_enabled
  /\ dispatcher = "scanning"
  /\ Hive1 \in DOMAIN devices
  /\ now - devices[Hive1].last_state_sent > StateWindow
  /\ now - devices[Hive1].last_config_sent > ConfigWindow
  /\ tasks = {}

\* A configuration evaluation of a resolved device of a model that has no
\* configuration message, with the configuration window elapsed.
ConfigStepWithoutChannels ==
  /\ ConfigStep
  /\ device_id # Sentinel
  /\ devices[device_id].model \notin {TempModel, ScaleModel}
  /\ now - devices[device_id].last_config_sent > ConfigWindow

\* C16 as stated: a configuration evaluation at now for a resolved device whose
\* window has elapsed and whose model is neither 47 nor 57 emits no message
\* and sets last_config_sent to now.
C16_StampIsEvaluationTime ==
  [][ConfigStepWithoutChannels =>
       /\ Spawned = {}
       /\ devices'[device_id].last_config_sent = now]_vars

\* C16 as amended: such an evaluation emits no message and sets
\* last_config_sent to a second reading of the clock, taken at or after the
\* reading the guard compared; the guard then stays closed for the hour that
\* follows the written value, and no configuration message of the device is
\* ever pending or handed over.
C16_StampWithoutMessages ==
  [][ConfigStepWithoutChannels =>
       /\ Spawned = {}
       /\ devices'[device_id].last_config_sent = now'
       /\ now' >= now
       /\ ~ConfigDue(devices'[device_id], now' + ConfigWindow)
       /\ \A m \in tasks' : m.device_id = device_id => m.kind \notin ConfigKinds
       /\ \A k \in ConfigKinds : <<device_id, k>> \notin handed']_vars

\* A device of model 12 had its configuration timestamp written by its first
\* dispatch; a later dispatch has just evaluated configuration again, within
\* the hour, and passed the guard no second time.
C16_Witness ==
  /\ Hive1 \in DOMAIN devices
  /\ device_id = Hive1
  /\ devices[Hive1].model = 12
  /\ dispatcher = "state"
  /\ devices[Hive1].last_config_sent >= StartTime
  /\ devices[Hive1].last_state_sent >= StartTime
  /\ Len(passes[<<Hive1, "config">>]) = 1
  /\ ticks > 0

\* The step logs a pass of its guard under key k.
Passed(k) == k \in DOMAIN passes' /\ Changed(k)

\* C17: the two windows are independent. A state evaluation leaves
\* last_config_sent as it is and passes its guard exactly when the device is
\* resolved and now - last_state_sent > 30000, whatever last_config_sent holds;
\* a configuration evaluation leaves last_state_sent as it is and passes its
\* guard exactly when the device is resolved and now - last_config_sent >
\* 3600000, whatever last_state_sent holds.
C17_WindowsAreIndependent ==
  [][/\ StateStep =>
          LET self == devices[device_id] IN
            /\ devices'[device_id].last_config_sent = self.last_config_sent
            /\ ~Passed(<<device_id, "config">>)
            /\ \A m \in Spawned : m.kind = "state"
            /\ Passed(<<device_id, "state">>) <=>
                 (device_id # Sentinel /\ now - self.last_state_sent > StateWindow)
     /\ ConfigStep =>
          LET self == devices[device_id] IN
            /\ devices'[device_id].last_state_sent = self.last_state_sent
            /\ ~Passed(<<device_id, "state">>)
            /\ \A m \in Spawned : m.kind \in ConfigKinds
            /\ Passed(<<device_id, "config">>) <=>
                 (device_id # Sentinel /\ now - self.last_config_sent > ConfigWindow)]_vars

\* Both mixed situations in one run of one device: its second state pass came
\* in a dispatch whose configuration evaluation was blocked (no configuration
\* pass within an hour before it), and its second configuration pass came in a
\* later dispatch, now complete, whose state evaluation was blocked.
C17_Witness ==
  /\ dispatcher = "scanning"
  /\ device_id = Hive1
  /\ <<Hive1, "config">> \in DOMAIN passes
  /\ <<Hive1, "state">> \in DOMAIN passes
  /\ LET config == passes[<<Hive1, "config">>]
         state == passes[<<Hive1, "state">>]
     IN /\ Len(config) = 2
        /\ Len(state) = 2
        /\ state[2] > config[1] + StateWindow
        /\ state[2] < config[2]
        /\ config[2] - state[2] <= StateWindow

\* C18: whether the upsert built the record or updated it does not gate
\* publication. With publishing enabled every dispatched advertisement that
\* decodes goes on to the configuration evaluation and then the state
\* evaluation, first sighting or not; a resolved record with last_state_sent 0
\* exists only inside the dispatch that built it, and the state evaluation of
\* that dispatch spawns its state message.
C18_FirstSightingPublishes ==
  [][/\ \A ev \in Events :
          Dispatched(ev) /\ Decodable(DataOf(ev)) /\ mqtt_enabled =>
            /\ dispatcher' = "config"
            /\ IdOf(ev) \notin DOMAIN devices =>
                 /\ devices'[IdOf(ev)].last_config_sent = 0
                 /\ devices'[IdOf(ev)].last_state_sent = 0
     /\ ConfigStep => dispatcher' = "state" /\ device_id' = device_id
     /\ \A id \in DOMAIN devices' :
          mqtt_enabled /\ id # Sentinel /\ devices'[id].last_state_sent = 0 =>
            device_id' = id /\ dispatcher' \in {"config", "state"}
     /\ StateStep /\ device_id # Sentinel /\ devices[device_id].last_state_sent = 0 =>
          /\ Cardinality(Spawned) = 1
          /\ \A m \in Spawned : m.kind = "state" /\ m.device_id = device_id]_vars

\* The first advertisement of the run has built the record of "47:01:01" and
\* its dispatch has just ended: the state message is pending, nothing has been
\* handed over yet, and no time but the clock skew has passed.
C18_Witness ==
  /\ ticks = 0
  /\ dispatcher = "scanning"
  /\ device_id = Hive1
  /\ handed = {}
  /\ \E m \in tasks : m.kind = "state" /\ m.device_id = Hive1
  /\ devices[Hive1].last_state_sent >= StartTime
  /\ Len(passes[<<Hive1, "state">>]) = 1

\* The identity with its ':' separators stripped, between the fixed parts of the
\* state topic.
StateTopicOf(id) == <<"homeassistant/sensor/BM">> \o SelectSeq(id, NotColon) \o <<"/state">>
\* The configuration kinds of which a message of identity id has been spawned so
\* far: each is pending or handed over.
ConfiguredKinds(id) ==
  {k \in ConfigKinds : <<id, k>> \in handed \/ \E c \in tasks : c.device_id = id /\ c.kind = k}
\* The state key a configuration message of kind k reads.
TemplateKey(k) == IF k = "config_temp" THEN "temperature_c" ELSE "weight_lbs"

\* C19: every configuration message spawned for a device declares as
\* state_topic the topic built from the identity with ':' stripped, every
\* state message spawned for it is published on that same topic, the value
\* template of a configuration message names the key of its channel, and every
\* state message spawned for the device carries the key of every configuration
\* message spawned for it so far, pending or handed over.
C19_ConfigMatchesState ==
  [][\A m \in Spawned :
       /\ m.kind \in ConfigKinds =>
            /\ m.payload.state_topic = StateTopicOf(m.device_id)
            /\ m.payload.value_template = TemplateKey(m.kind)
            /\ m.payload.value_template \in DOMAIN state_message(devices[m.device_id])
       /\ m.kind = "state" =>
            /\ m.topic = StateTopicOf(m.device_id)
            /\ \A c \in tasks : c.device_id = m.device_id /\ c.kind \in ConfigKinds =>
                 /\ c.payload.state_topic = m.topic
                 /\ c.payload.value_template \in DOMAIN m.payload
            /\ \A k \in ConfiguredKinds(m.device_id) : TemplateKey(k) \in DOMAIN m.payload]_vars

\* The weight configuration of the scale "47:01:01" has been handed over in an
\* earlier dispatch, and a state message of a later dispatch is pending: its
\* topic has the identity without separators and its payload has both keys.
C19_Witness ==
  /\ <<Hive1, "config_weight">> \in handed
  /\ <<Hive1, "config_temp">> \in handed
  /\ <<Hive1, "state">> \in DOMAIN passes
  /\ Len(passes[<<Hive1, "state">>]) = 2
  /\ \E m \in tasks :
       /\ m.kind = "state"
       /\ m.device_id = Hive1
       /\ m.topic = <<"homeassistant/sensor/BM", "4", "7", "0", "1", "0", "1", "/state">>
       /\ DOMAIN m.payload = {"temperature_c", "weight_lbs"}

\* The kinds of message a record's model publishes.
Channels(self) ==
  (IF HasTemperature(self) THEN {"config_temp"} ELSE {}) \cup
  (IF HasWeight(self) THEN {"config_weight"} ELSE {})

\* C20: model, minor_version and major_version of a record are those of the
\* first advertisement decoded for its identity; no later step changes them,
\* whatever model byte a later advertisement carries, so the channels of the
\* identity stay the same: every configuration pass spawns exactly the
\* messages of the record's channels, and a state message carries weight_lbs
\* exactly when the record is a scale's.
C20_ModelIsFixedAtFirstSight ==
  [][/\ \A id \in DOMAIN devices :
          /\ Keeps(id, {"model", "minor_version", "major_version"})
          /\ Channels(devices'[id]) = Channels(devices[id])
     /\ \A ev \in Events :
          Dispatched(ev) /\ Decodable(DataOf(ev)) /\ IdOf(ev) \notin DOMAIN devices =>
            Agrees(devices'[IdOf(ev)], ExpectedHead(DataOf(ev)))
     /\ ConfigStep /\ Passed(<<device_id, "config">>) =>
          {m.kind : m \in Spawned} = Channels(devices[device_id])
     /\ \A m \in Spawned : m.kind = "state" =>
          ("weight_lbs" \in DOMAIN m.payload <=> devices[m.device_id].model = ScaleModel)]_vars

\* The record of "47:01:01" was built from a scale's advertisement (model 57);
\* a later advertisement with model byte 47 has updated its readings, and the
\* state message of that dispatch still carries the weight.
C20_Witness ==
  /\ event = Advertisement((BroodminderKey :> Buf47), Some(Hive1))
  /\ device_id = Hive1
  /\ devices[Hive1].model = ScaleModel
  /\ devices[Hive1].minor_version = Buf57[2]
  /\ devices[Hive1].realtime_temp1 = Buf47[4]
  /\ \E m \in tasks :
       m.kind = "state" /\ m.device_id = Hive1 /\ "weight_lbs" \in DOMAIN m.payload

====
